---- MODULE Spec2Model ----
(***************************************************************************)
(* A model of YaPECS: the World (src/yapecs/world.py) and the containers   *)
(* it is built from (src/yapecs/_detail.py).                               *)
(*                                                                         *)
(* A component type is a small integer, a component is a record            *)
(* [type, val] (its class and its opaque payload), a Bitmask is a natural  *)
(* number, a dict is a function, a set is a set and a list is a sequence.  *)
(* An exception is a string naming the exception class and, for KeyError,  *)
(* the lookup that raised it.  Every public method of World is one action  *)
(* that runs the whole method, including the part of a loop that ran       *)
(* before an exception left it.                                            *)
(***************************************************************************)
EXTENDS Integers, Sequences, FiniteSets, TLC

\* ------------------------------------------------------------------ bounds
\* Component classes 0 .. NumTypes-1 are the ones a registry may know;
\* class NumTypes is a class that is never registered.
NumTypes == 2
\* Entity identities minted between two clear() calls.
MaxIds == 2
\* Positional arguments passed to one call.
MaxArgs == 2
\* Priorities 0 .. MaxPriority, processor records held at once.
MaxPriority == 2
MaxProcs == 3

CompTypes == 0..NumTypes
KnownTypes == 0..(NumTypes - 1)
Values == {1, 2}
ProcTypes == {"P", "Q"}
EntityIds == 0..MaxIds

VARIABLES
    component_types,   \* World._component_types : class -> Bitmask
    entities,          \* World._entities        : EntityID -> EntityRecord
    entity_cache,      \* World._entity_cache    : Bitmask -> set of EntityID
    processors,        \* World._processors      : list of ProcessorRecord
    new_entity_id,     \* World._new_entity_id
    last,              \* the call made last: its arguments and its outcome
    before,            \* the five fields above as they were when that call began
    minted,            \* history: identities create_entity returned since clear()
    proc_registered    \* history: a processor registration returned since clear()

world == <<component_types, entities, entity_cache, processors, new_entity_id>>
vars == <<component_types, entities, entity_cache, processors, new_entity_id,
          last, before, minted, proc_registered>>

\* The World's fields as one value.
Now ==
    [component_types |-> component_types, entities |-> entities,
     entity_cache |-> entity_cache, processors |-> processors,
     new_entity_id |-> new_entity_id]

\* ------------------------------------------------------------- exceptions
OK == "ok"
KeyErrorType == "KeyError(component type)"    \* _component_types[cls]
KeyErrorId == "KeyError(entity id)"           \* _entities[entity_id]
KeyErrorBit == "KeyError(record key)"         \* record[bit], del record[bit]
KeyErrorCache == "KeyError(cache key)"        \* dict.__getitem__(cache, bit)
KeyErrorMember == "KeyError(set member)"      \* set.remove(entity_id)
TypeErrorReduce == "TypeError(reduce of empty iterable)"
TypeErrorInvariant == "TypeError(InvariantDict)"
ValueErrorOrder == "ValueError(component after processor)"

LookupErrors == {KeyErrorType, KeyErrorId, KeyErrorBit, KeyErrorCache, KeyErrorMember}

\* ---------------------------------------------------------------- Bitmask
RECURSIVE BitAnd(_, _)
BitAnd(a, b) ==
    IF a = 0 \/ b = 0 THEN 0
    ELSE (a % 2) * (b % 2) + 2 * BitAnd(a \div 2, b \div 2)

RECURSIVE BitOr(_, _)
BitOr(a, b) ==
    IF a = 0 THEN b
    ELSE IF b = 0 THEN a
    ELSE (IF a % 2 = 1 \/ b % 2 = 1 THEN 1 ELSE 0) + 2 * BitOr(a \div 2, b \div 2)

RECURSIVE BitXor(_, _)
BitXor(a, b) ==
    IF a = 0 THEN b
    ELSE IF b = 0 THEN a
    ELSE ((a + b) % 2) + 2 * BitXor(a \div 2, b \div 2)

Shl(a, n) == a * (2 ^ n)

\* Bitmask.bits: bit = 1; while bit <= self: if bit & self: yield bit; bit <<= 1
RECURSIVE BitsFrom(_, _)
BitsFrom(bit, self) ==
    IF bit <= self
    THEN (IF BitAnd(bit, self) # 0 THEN <<bit>> ELSE <<>>) \o BitsFrom(Shl(bit, 1), self)
    ELSE <<>>

bits(self) == BitsFrom(1, self)

\* ------------------------------------------------------------ dict helpers
Range(s) == {s[i] : i \in 1..Len(s)}

\* dict.__setitem__(d, k, v)
DictSet(d, k, v) == [x \in (DOMAIN d) \cup {k} |-> IF x = k THEN v ELSE d[x]]

\* dict.__delitem__(d, k), for a key that is present
DictDel(d, k) == [x \in (DOMAIN d) \ {k} |-> d[x]]

EmptyDict == [x \in {} |-> 0]

\* The keys of a bit-keyed dict as a sequence, ascending.  Python iterates a
\* dict in insertion order; the order is only observable when the loop body
\* raises partway, which the loops over a record's keys never do while the
\* cache mirrors the records.
RECURSIVE SortedSeq(_)
SortedSeq(S) ==
    IF S = {} THEN <<>>
    ELSE LET m == CHOOSE x \in S : \A y \in S : x <= y
         IN <<m>> \o SortedSeq(S \ {m})

\* functools.reduce(or_, seq) with no initial value
RECURSIVE ReduceOrFrom(_, _)
ReduceOrFrom(acc, seq) ==
    IF seq = <<>> THEN acc ELSE ReduceOrFrom(BitOr(acc, Head(seq)), Tail(seq))

ReduceOr(seq) ==
    IF seq = <<>> THEN [err |-> TypeErrorReduce, val |-> 0]
    ELSE [err |-> OK, val |-> ReduceOrFrom(Head(seq), Tail(seq))]

\* ---------------------------------------------------------- InvariantDict
\* InvariantDict.__setitem__ always raises and stores nothing.
InvariantDict_setitem(d, key, value) == [err |-> TypeErrorInvariant, dict |-> d]

\* ComponentRegistry.get_new_key: 1 << len(self)
ComponentRegistry_get_new_key(reg) == Shl(1, Cardinality(DOMAIN reg))

\* ----------------------------------------------------------- EntityRecord
\* The dict comprehension of EntityRecord.__init__: a later component of a
\* class replaces an earlier one; the first unregistered class raises.
RECURSIVE RecordDictFrom(_, _, _)
RecordDictFrom(reg, d, components) ==
    IF components = <<>> THEN [err |-> OK, dict |-> d]
    ELSE LET c == Head(components)
         IN IF c.type \notin DOMAIN reg
            THEN [err |-> KeyErrorType, dict |-> d]
            ELSE RecordDictFrom(reg, DictSet(d, reg[c.type], c.val), Tail(components))

\* EntityRecord.__init__(id, components)
EntityRecord_init(reg, id, components) ==
    LET built == RecordDictFrom(reg, EmptyDict, components)
    IN IF built.err # OK THEN [err |-> built.err]
       ELSE LET agg == ReduceOr(SortedSeq(DOMAIN built.dict))
            IN IF agg.err # OK THEN [err |-> agg.err]
               ELSE [err |-> OK,
                     record |-> [comps |-> built.dict, id |-> id, bitmask |-> agg.val]]

\* EntityRecord.add that keeps the value already stored under a held key.
EntityRecord_add_KeepsFirst(reg, record, value) ==
    IF value.type \notin DOMAIN reg
    THEN [err |-> KeyErrorType, record |-> record, bit |-> 0]
    ELSE LET bitmask == reg[value.type]
         IN [err |-> OK,
             record |-> IF bitmask \in DOMAIN record.comps THEN record
                        ELSE [record EXCEPT !.comps = DictSet(@, bitmask, value.val),
                                            !.bitmask = BitOr(@, bitmask)],
             bit |-> bitmask]

\* EntityRecord.add(value)
EntityRecord_add(reg, record, value) ==
    IF value.type \notin DOMAIN reg
    THEN [err |-> KeyErrorType, record |-> record, bit |-> 0]
    ELSE LET bitmask == reg[value.type]
         IN [err |-> OK,
             record |-> [record EXCEPT !.comps = DictSet(@, bitmask, value.val),
                                       !.bitmask = BitOr(@, bitmask)],
             bit |-> bitmask]

\* EntityRecord.__delitem__ with the XOR ahead of the dict deletion: an absent
\* key still raises, after its bit was toggled in the aggregate.
EntityRecord_delitem_XorFirst(record, key) ==
    IF key \notin DOMAIN record.comps
    THEN [err |-> KeyErrorBit, record |-> [record EXCEPT !.bitmask = BitXor(@, key)]]
    ELSE [err |-> OK,
          record |-> [record EXCEPT !.comps = DictDel(@, key),
                                    !.bitmask = BitXor(@, key)]]

\* EntityRecord.__delitem__(key)
EntityRecord_delitem(record, key) ==
    IF key \notin DOMAIN record.comps
    THEN [err |-> KeyErrorBit, record |-> record]
    ELSE [err |-> OK,
          record |-> [record EXCEPT !.comps = DictDel(@, key),
                                    !.bitmask = BitXor(@, key)]]

\* EntityRecord.clear()
EntityRecord_clear(record) ==
    [record EXCEPT !.comps = EmptyDict, !.bitmask = BitAnd(@, 0)]

\* ------------------------------------------------------------ EntityCache
\* functools.reduce(and_, sets) with no initial value, over
\* dict.__getitem__(self, bit) for bit in bitmask.bits
RECURSIVE CacheReduceFrom(_, _, _)
CacheReduceFrom(cache, acc, bitseq) ==
    IF bitseq = <<>> THEN [err |-> OK, set |-> acc]
    ELSE IF Head(bitseq) \notin DOMAIN cache THEN [err |-> KeyErrorCache, set |-> {}]
    ELSE CacheReduceFrom(cache, acc \cap cache[Head(bitseq)], Tail(bitseq))

\* EntityCache.__getitem__ with or_ in place of and_: the union of the sets.
EntityCache_getitem_Union(cache, bitmask) ==
    LET bitseq == bits(bitmask)
    IN IF bitseq = <<>> THEN [err |-> TypeErrorReduce, set |-> {}]
       ELSE IF \E i \in 1..Len(bitseq) : bitseq[i] \notin DOMAIN cache
       THEN [err |-> KeyErrorCache, set |-> {}]
       ELSE [err |-> OK, set |-> UNION {cache[bitseq[i]] : i \in 1..Len(bitseq)}]

\* EntityCache.__getitem__(bitmask)
EntityCache_getitem(cache, bitmask) ==
    LET bitseq == bits(bitmask)
    IN IF bitseq = <<>> THEN [err |-> TypeErrorReduce, set |-> {}]
       ELSE IF Head(bitseq) \notin DOMAIN cache THEN [err |-> KeyErrorCache, set |-> {}]
       ELSE CacheReduceFrom(cache, cache[Head(bitseq)], Tail(bitseq))

\* self._entity_cache.setdefault(bitmask, set()).add(entity_id)
CacheAdd(cache, bitmask, entity_id) ==
    DictSet(cache, bitmask,
            (IF bitmask \in DOMAIN cache THEN cache[bitmask] ELSE {}) \cup {entity_id})

\* set.remove that also drops the per-bit set once it is empty.
CacheRemove_DropsEmpty(cache, bitmask, entity_id) ==
    IF bitmask \notin DOMAIN cache THEN [err |-> KeyErrorCache, cache |-> cache]
    ELSE IF entity_id \notin cache[bitmask] THEN [err |-> KeyErrorMember, cache |-> cache]
    ELSE IF cache[bitmask] = {entity_id} THEN [err |-> OK, cache |-> DictDel(cache, bitmask)]
    ELSE [err |-> OK, cache |-> [cache EXCEPT ![bitmask] = @ \ {entity_id}]]

\* self._entity_cache[bitmask].remove(entity_id), for a single-bit key: the
\* reduce over one set returns the stored set itself, which remove() mutates.
CacheRemove(cache, bitmask, entity_id) ==
    LET got == EntityCache_getitem(cache, bitmask)
    IN IF got.err # OK THEN [err |-> got.err, cache |-> cache]
       ELSE IF entity_id \notin got.set THEN [err |-> KeyErrorMember, cache |-> cache]
       ELSE [err |-> OK, cache |-> [cache EXCEPT ![bitmask] = @ \ {entity_id}]]

\* ------------------------------------------------------------------ World
\* for bitmask in record: self._entity_cache.setdefault(bitmask, set()).add(entity_id)
RECURSIVE CacheAddAll(_, _, _)
CacheAddAll(cache, bitseq, entity_id) ==
    IF bitseq = <<>> THEN cache
    ELSE CacheAddAll(CacheAdd(cache, Head(bitseq), entity_id), Tail(bitseq), entity_id)

\* World.create_entity without the increment of _new_entity_id.
create_entity_NoIncrement(reg, ents, cache, nid, components) ==
    LET made == EntityRecord_init(reg, nid, components)
    IN IF made.err # OK
       THEN [err |-> made.err, ret |-> -1,
             entities |-> ents, entity_cache |-> cache, new_entity_id |-> nid]
       ELSE [err |-> OK, ret |-> nid,
             entities |-> DictSet(ents, nid, made.record),
             entity_cache |-> CacheAddAll(cache, SortedSeq(DOMAIN made.record.comps), nid),
             new_entity_id |-> nid]

\* World.create_entity(*components)
create_entity(reg, ents, cache, nid, components) ==
    LET made == EntityRecord_init(reg, nid, components)
    IN IF made.err # OK
       THEN [err |-> made.err, ret |-> -1,
             entities |-> ents, entity_cache |-> cache, new_entity_id |-> nid]
       ELSE [err |-> OK, ret |-> nid,
             entities |-> DictSet(ents, nid, made.record),
             entity_cache |-> CacheAddAll(cache, SortedSeq(DOMAIN made.record.comps), nid),
             new_entity_id |-> nid + 1]

\* for bitmask in self._entities[entity_id]: self._entity_cache[bitmask].remove(entity_id)
RECURSIVE CacheRemoveAll(_, _, _)
CacheRemoveAll(cache, bitseq, entity_id) ==
    IF bitseq = <<>> THEN [err |-> OK, cache |-> cache]
    ELSE LET one == CacheRemove(cache, Head(bitseq), entity_id)
         IN IF one.err # OK THEN one
            ELSE CacheRemoveAll(one.cache, Tail(bitseq), entity_id)

\* World.remove_entity without the loop that takes the identity out of the
\* cache sets.
remove_entity_NoForget(ents, cache, entity_id) ==
    IF entity_id \notin DOMAIN ents
    THEN [err |-> KeyErrorId, entities |-> ents, entity_cache |-> cache]
    ELSE [err |-> OK, entities |-> DictDel(ents, entity_id), entity_cache |-> cache]

\* World.remove_entity(entity_id)
remove_entity(ents, cache, entity_id) ==
    IF entity_id \notin DOMAIN ents
    THEN [err |-> KeyErrorId, entities |-> ents, entity_cache |-> cache]
    ELSE LET gone == CacheRemoveAll(cache, SortedSeq(DOMAIN ents[entity_id].comps), entity_id)
         IN IF gone.err # OK
            THEN [err |-> gone.err, entities |-> ents, entity_cache |-> gone.cache]
            ELSE [err |-> OK, entities |-> DictDel(ents, entity_id),
                  entity_cache |-> gone.cache]

\* World.add_components with the cache brought up to date only after the
\* whole loop over the components has run.
RECURSIVE AddLoop_CacheAfter(_, _, _, _, _)
AddLoop_CacheAfter(reg, ents, cache, entity_id, components) ==
    IF components = <<>>
    THEN [err |-> OK, entities |-> ents,
          entity_cache |-> CacheAddAll(cache, SortedSeq(DOMAIN ents[entity_id].comps),
                                       entity_id)]
    ELSE LET added == EntityRecord_add(reg, ents[entity_id], Head(components))
         IN IF added.err # OK
            THEN [err |-> added.err, entities |-> ents, entity_cache |-> cache]
            ELSE AddLoop_CacheAfter(reg, [ents EXCEPT ![entity_id] = added.record],
                                    cache, entity_id, Tail(components))

\* The loop of World.add_components: record.add(component), then the cache.
RECURSIVE AddLoop(_, _, _, _, _)
AddLoop(reg, ents, cache, entity_id, components) ==
    IF components = <<>> THEN [err |-> OK, entities |-> ents, entity_cache |-> cache]
    ELSE LET added == EntityRecord_add(reg, ents[entity_id], Head(components))
         IN IF added.err # OK
            THEN [err |-> added.err, entities |-> ents, entity_cache |-> cache]
            ELSE AddLoop(reg, [ents EXCEPT ![entity_id] = added.record],
                         CacheAdd(cache, added.bit, entity_id),
                         entity_id, Tail(components))

\* World.add_components(entity_id, *components)
add_components(reg, ents, cache, entity_id, components) ==
    IF entity_id \notin DOMAIN ents
    THEN [err |-> KeyErrorId, entities |-> ents, entity_cache |-> cache]
    ELSE AddLoop(reg, ents, cache, entity_id, components)

\* World.remove_components without the removal from the cache set.
RECURSIVE RemoveLoop_KeepsCache(_, _, _, _, _)
RemoveLoop_KeepsCache(reg, ents, cache, entity_id, comp_types) ==
    IF comp_types = <<>> THEN [err |-> OK, entities |-> ents, entity_cache |-> cache]
    ELSE IF Head(comp_types) \notin DOMAIN reg
    THEN [err |-> KeyErrorType, entities |-> ents, entity_cache |-> cache]
    ELSE LET deleted == EntityRecord_delitem(ents[entity_id], reg[Head(comp_types)])
             ents2 == [ents EXCEPT ![entity_id] = deleted.record]
         IN IF deleted.err # OK
            THEN [err |-> deleted.err, entities |-> ents2, entity_cache |-> cache]
            ELSE RemoveLoop_KeepsCache(reg, ents2, cache, entity_id, Tail(comp_types))

\* The loop of World.remove_components: the registry lookup, del record[bitmask],
\* then self._entity_cache[bitmask].remove(entity_id).
RECURSIVE RemoveLoop(_, _, _, _, _)
RemoveLoop(reg, ents, cache, entity_id, comp_types) ==
    IF comp_types = <<>> THEN [err |-> OK, entities |-> ents, entity_cache |-> cache]
    ELSE IF Head(comp_types) \notin DOMAIN reg
    THEN [err |-> KeyErrorType, entities |-> ents, entity_cache |-> cache]
    ELSE LET bitmask == reg[Head(comp_types)]
             deleted == EntityRecord_delitem(ents[entity_id], bitmask)
             ents2 == [ents EXCEPT ![entity_id] = deleted.record]
             forgot == CacheRemove(cache, bitmask, entity_id)
         IN IF deleted.err # OK
            THEN [err |-> deleted.err, entities |-> ents2, entity_cache |-> cache]
            ELSE IF forgot.err # OK
            THEN [err |-> forgot.err, entities |-> ents2, entity_cache |-> cache]
            ELSE RemoveLoop(reg, ents2, forgot.cache, entity_id, Tail(comp_types))

\* World.remove_components(entity_id, *comp_types)
remove_components(reg, ents, cache, entity_id, comp_types) ==
    IF entity_id \notin DOMAIN ents
    THEN [err |-> KeyErrorId, entities |-> ents, entity_cache |-> cache]
    ELSE RemoveLoop(reg, ents, cache, entity_id, comp_types)

\* World.get_components that builds its tuple back to front.
RECURSIVE get_components_Reversed(_, _, _, _)
get_components_Reversed(reg, ents, entity_id, ctypes) ==
    IF ctypes = <<>> THEN [err |-> OK, ret |-> <<>>]
    ELSE IF entity_id \notin DOMAIN ents THEN [err |-> KeyErrorId, ret |-> <<>>]
    ELSE IF Head(ctypes) \notin DOMAIN reg THEN [err |-> KeyErrorType, ret |-> <<>>]
    ELSE IF reg[Head(ctypes)] \notin DOMAIN ents[entity_id].comps
    THEN [err |-> KeyErrorBit, ret |-> <<>>]
    ELSE LET rest == get_components_Reversed(reg, ents, entity_id, Tail(ctypes))
         IN IF rest.err # OK THEN rest
            ELSE [err |-> OK,
                  ret |-> rest.ret \o <<ents[entity_id].comps[reg[Head(ctypes)]]>>]

\* World.get_components(entity_id, *component_types): the tuple of
\* self._entities[entity_id][self._component_types[ctype]], left to right.
RECURSIVE get_components(_, _, _, _)
get_components(reg, ents, entity_id, ctypes) ==
    IF ctypes = <<>> THEN [err |-> OK, ret |-> <<>>]
    ELSE IF entity_id \notin DOMAIN ents THEN [err |-> KeyErrorId, ret |-> <<>>]
    ELSE IF Head(ctypes) \notin DOMAIN reg THEN [err |-> KeyErrorType, ret |-> <<>>]
    ELSE IF reg[Head(ctypes)] \notin DOMAIN ents[entity_id].comps
    THEN [err |-> KeyErrorBit, ret |-> <<>>]
    ELSE LET rest == get_components(reg, ents, entity_id, Tail(ctypes))
         IN IF rest.err # OK THEN rest
            ELSE [err |-> OK,
                  ret |-> <<ents[entity_id].comps[reg[Head(ctypes)]]>> \o rest.ret]

\* World.get_entities_by_bitmask(bitmask), run to exhaustion: the records of
\* the identities in self._entity_cache[bitmask].
get_entities_by_bitmask(ents, cache, bitmask) ==
    LET got == EntityCache_getitem(cache, bitmask)
    IN IF got.err # OK THEN [err |-> got.err, ret |-> {}]
       ELSE IF \E e \in got.set : e \notin DOMAIN ents
       THEN [err |-> KeyErrorId, ret |-> {ents[e] : e \in got.set \cap DOMAIN ents}]
       ELSE [err |-> OK, ret |-> {ents[e] : e \in got.set}]

\* World.component(ctype)
component(reg, procs, ctype) ==
    IF procs # <<>> THEN [err |-> ValueErrorOrder, component_types |-> reg]
    ELSE LET set == InvariantDict_setitem(reg, Shl(1, Cardinality(DOMAIN reg)), ctype)
         IN [err |-> set.err, component_types |-> set.dict]

\* World._get_bitmasks(component_types)
RECURSIVE get_bitmasks(_, _)
get_bitmasks(reg, types) ==
    IF types = <<>> THEN [err |-> OK, bitmasks |-> <<>>]
    ELSE IF Head(types) \notin DOMAIN reg THEN [err |-> KeyErrorType, bitmasks |-> <<>>]
    ELSE LET rest == get_bitmasks(reg, Tail(types))
         IN IF rest.err # OK THEN rest
            ELSE [err |-> OK, bitmasks |-> <<reg[Head(types)]>> \o rest.bitmasks]

\* list.insert(i, x), i counted from 0
ListInsert(list, i, x) == SubSeq(list, 1, i) \o <<x>> \o SubSeq(list, i + 1, Len(list))

\* The decorator World.processor(*component_types, priority=...) applied to a
\* processor class: the loop runs over the records already held and inserts
\* only in front of the first one of strictly lower priority.
processor(reg, procs, ptype, types, priority) ==
    LET lower == {i \in 1..Len(procs) : procs[i].priority < priority}
    IN IF lower = {} THEN [err |-> OK, processors |-> procs]
       ELSE LET i == CHOOSE x \in lower : \A y \in lower : x <= y
                got == get_bitmasks(reg, types)
                mask == ReduceOr(got.bitmasks)
            IN IF got.err # OK THEN [err |-> got.err, processors |-> procs]
               ELSE IF mask.err # OK THEN [err |-> mask.err, processors |-> procs]
               ELSE [err |-> OK,
                     processors |->
                         ListInsert(procs, i - 1,
                                    [processor |-> ptype, component_bitmask |-> mask.val,
                                     order |-> got.bitmasks, priority |-> priority])]

\* priority=None of World.remove_processor
NoPriority == -1

\* World.remove_processor(processor_type, priority=None): the list
\* comprehension keeps the records its condition accepts.
KeptByRemove(record, processor_type, priority) ==
    /\ record.processor = processor_type
    /\ (priority = NoPriority \/ record.priority = priority)

remove_processor(procs, processor_type, priority) ==
    LET Keep(record) == KeptByRemove(record, processor_type, priority)
    IN SelectSeq(procs, Keep)

\* World.__init__: the five fields of a new World.
FreshWorld ==
    /\ component_types = EmptyDict
    /\ entities = EmptyDict
    /\ entity_cache = EmptyDict
    /\ processors = <<>>
    /\ new_entity_id = 0

\* ---------------------------------------------------------------- actions
\* What the caller of a World method sees: the method, the arguments it was
\* given (entity identity, components, component classes, bitmask, processor
\* class, priority; -1, <<>> or "" for the ones the method does not take), the
\* exception it raised (OK for none) and what it returned (an identity, a
\* tuple of components or a collection of records).
Call(op, id, comps, types, err) ==
    [op |-> op, id |-> id, comps |-> comps, types |-> types, mask |-> -1,
     ptype |-> "", priority |-> -1, result |-> err,
     ret |-> -1, values |-> <<>>, records |-> {}]

\* The caller is between two calls: it has taken the outcome of the last one.
Ready == Call("ready", -1, <<>>, <<>>, OK)

SeqsUpTo(S, n) == UNION {[1..k -> S] : k \in 0..n}
Components(V) == {[type |-> t, val |-> v] : t \in CompTypes, v \in V}
ComponentLists(V) == SeqsUpTo(Components(V), MaxArgs)
TypeLists == SeqsUpTo(CompTypes, MaxArgs)
Masks == 0..(Shl(1, NumTypes + 1) - 1)
Priorities == 0..MaxPriority

CreateEntity(V) ==
    /\ last.op = "ready"
    /\ before' = Now
    /\ new_entity_id < MaxIds
    /\ \E components \in ComponentLists(V) :
          LET r == create_entity(component_types, entities, entity_cache,
                                 new_entity_id, components)
          IN /\ entities' = r.entities
             /\ entity_cache' = r.entity_cache
             /\ new_entity_id' = r.new_entity_id
             /\ last' = [Call("create_entity", -1, components, <<>>, r.err)
                           EXCEPT !.ret = r.ret]
             /\ minted' = IF r.err = OK THEN Append(minted, r.ret) ELSE minted
    /\ UNCHANGED <<component_types, processors, proc_registered>>

RemoveEntity ==
    /\ last.op = "ready"
    /\ before' = Now
    /\ \E entity_id \in EntityIds :
          LET r == remove_entity(entities, entity_cache, entity_id)
          IN /\ entities' = r.entities
             /\ entity_cache' = r.entity_cache
             /\ last' = Call("remove_entity", entity_id, <<>>, <<>>, r.err)
    /\ UNCHANGED <<component_types, processors, new_entity_id, minted, proc_registered>>

AddComponents(V) ==
    /\ last.op = "ready"
    /\ before' = Now
    /\ \E entity_id \in EntityIds, components \in ComponentLists(V) :
          LET r == add_components(component_types, entities, entity_cache,
                                  entity_id, components)
          IN /\ entities' = r.entities
             /\ entity_cache' = r.entity_cache
             /\ last' = Call("add_components", entity_id, components, <<>>, r.err)
    /\ UNCHANGED <<component_types, processors, new_entity_id, minted, proc_registered>>

RemoveComponents ==
    /\ last.op = "ready"
    /\ before' = Now
    /\ \E entity_id \in EntityIds, comp_types \in TypeLists :
          LET r == remove_components(component_types, entities, entity_cache,
                                     entity_id, comp_types)
          IN /\ entities' = r.entities
             /\ entity_cache' = r.entity_cache
             /\ last' = Call("remove_components", entity_id, <<>>, comp_types, r.err)
    /\ UNCHANGED <<component_types, processors, new_entity_id, minted, proc_registered>>

GetComponents ==
    /\ last.op = "ready"
    /\ before' = Now
    /\ \E entity_id \in EntityIds, comp_types \in TypeLists :
          LET r == get_components(component_types, entities, entity_id, comp_types)
          IN last' = [Call("get_components", entity_id, <<>>, comp_types, r.err)
                          EXCEPT !.values = r.ret]
    /\ UNCHANGED <<world, minted, proc_registered>>

GetEntitiesByBitmask ==
    /\ last.op = "ready"
    /\ before' = Now
    /\ \E bitmask \in Masks :
          LET r == get_entities_by_bitmask(entities, entity_cache, bitmask)
          IN last' = [Call("get_entities_by_bitmask", -1, <<>>, <<>>, r.err)
                          EXCEPT !.mask = bitmask, !.records = r.ret]
    /\ UNCHANGED <<world, minted, proc_registered>>

RegisterComponent ==
    /\ last.op = "ready"
    /\ before' = Now
    /\ \E ctype \in CompTypes :
          LET r == component(component_types, processors, ctype)
          IN /\ component_types' = r.component_types
             /\ last' = Call("component", -1, <<>>, <<ctype>>, r.err)
    /\ UNCHANGED <<entities, entity_cache, processors, new_entity_id, minted,
                   proc_registered>>

RegisterProcessor ==
    /\ last.op = "ready"
    /\ before' = Now
    /\ Len(processors) < MaxProcs
    /\ \E ptype \in ProcTypes, types \in TypeLists, priority \in Priorities :
          LET r == processor(component_types, processors, ptype, types, priority)
          IN /\ processors' = r.processors
             /\ last' = [Call("processor", -1, <<>>, types, r.err)
                           EXCEPT !.ptype = ptype, !.priority = priority]
             /\ proc_registered' = (proc_registered \/ r.err = OK)
    /\ UNCHANGED <<component_types, entities, entity_cache, new_entity_id, minted>>

RemoveProcessor ==
    /\ last.op = "ready"
    /\ before' = Now
    /\ \E ptype \in ProcTypes, priority \in Priorities \cup {NoPriority} :
          /\ processors' = remove_processor(processors, ptype, priority)
          /\ last' = [Call("remove_processor", -1, <<>>, <<>>, OK)
                           EXCEPT !.ptype = ptype, !.priority = priority]
    /\ UNCHANGED <<component_types, entities, entity_cache, new_entity_id, minted,
                   proc_registered>>

\* World.clear() without the reset of _new_entity_id.
Clear_KeepsCounter ==
    /\ last.op = "ready"
    /\ before' = Now
    /\ component_types' = EmptyDict
    /\ entities' = EmptyDict
    /\ entity_cache' = EmptyDict
    /\ processors' = <<>>
    /\ new_entity_id' = new_entity_id
    /\ last' = Call("clear", -1, <<>>, <<>>, OK)
    /\ minted' = <<>>
    /\ proc_registered' = FALSE

\* World.clear()
Clear ==
    /\ last.op = "ready"
    /\ before' = Now
    /\ component_types' = EmptyDict
    /\ entities' = EmptyDict
    /\ entity_cache' = EmptyDict
    /\ processors' = <<>>
    /\ new_entity_id' = 0
    /\ last' = Call("clear", -1, <<>>, <<>>, OK)
    /\ minted' = <<>>
    /\ proc_registered' = FALSE

\* The caller takes the outcome of the call it made; the World is untouched.
Resume ==
    /\ last.op # "ready"
    /\ last' = Ready
    /\ before' = Now
    /\ UNCHANGED <<world, minted, proc_registered>>

\* --------------------------------------------------------- specifications
\* A World as World.__init__ leaves it.
Init ==
    /\ FreshWorld
    /\ last = Ready
    /\ before = Now
    /\ minted = <<>>
    /\ proc_registered = FALSE

Next ==
    \/ CreateEntity(Values)
    \/ RemoveEntity
    \/ AddComponents(Values)
    \/ RemoveComponents
    \/ GetComponents
    \/ GetEntitiesByBitmask
    \/ RegisterComponent
    \/ RegisterProcessor
    \/ RemoveProcessor
    \/ Clear
    \/ Resume

Spec == Init /\ [][Next]_vars

\* A World whose registry holds the classes 0 .. NumTypes-1, the n-th under
\* 1 << n: the mapping every reader of _component_types expects
\* (ComponentRegistry is declared InvariantDict[Type[Component], Bitmask]).
RegisteredTypes == [t \in KnownTypes |-> Shl(1, t)]

InitReg ==
    /\ component_types = RegisteredTypes
    /\ entities = EmptyDict
    /\ entity_cache = EmptyDict
    /\ processors = <<>>
    /\ new_entity_id = 0
    /\ last = Ready
    /\ before = Now
    /\ minted = <<>>
    /\ proc_registered = FALSE

NextReg ==
    \/ CreateEntity({1})
    \/ RemoveEntity
    \/ AddComponents({1})
    \/ RemoveComponents
    \/ GetComponents
    \/ GetEntitiesByBitmask
    \/ RegisterComponent
    \/ Clear
    \/ Resume

SpecReg == InitReg /\ [][NextReg]_vars

\* A World that already holds processor records.  _processors is a list the
\* registration keeps in descending order of priority, so it starts in that
\* order; its records carry the bitmask and order of class 0.
HeldRecords ==
    {[processor |-> p, component_bitmask |-> Shl(1, 0), order |-> <<Shl(1, 0)>>,
      priority |-> q] : p \in ProcTypes, q \in Priorities}

Descending(list) ==
    \A i \in 1..(Len(list) - 1) : list[i].priority >= list[i + 1].priority

InitProc ==
    /\ component_types = RegisteredTypes
    /\ entities = EmptyDict
    /\ entity_cache = EmptyDict
    /\ processors \in {list \in SeqsUpTo(HeldRecords, MaxProcs - 1) : Descending(list)}
    /\ new_entity_id = 0
    /\ last = Ready
    /\ before = Now
    /\ minted = <<>>
    /\ proc_registered = FALSE

NextProc ==
    \/ RegisterProcessor
    \/ RemoveProcessor
    \/ RegisterComponent
    \/ Clear
    \/ Resume

SpecProc == InitProc /\ [][NextProc]_vars

\* A World that holds processor records and whose entities come and go, for
\* what clear() has to reset.
InitClear ==
    /\ component_types = RegisteredTypes
    /\ entities = EmptyDict
    /\ entity_cache = EmptyDict
    /\ processors \in {list \in SeqsUpTo(HeldRecords, 2) : Descending(list)}
    /\ new_entity_id = 0
    /\ last = Ready
    /\ before = Now
    /\ minted = <<>>
    /\ proc_registered = FALSE

NextClear ==
    \/ CreateEntity({1})
    \/ Clear
    \/ Resume

SpecClear == InitClear /\ [][NextClear]_vars

\* A World right after its first entity was created with one component, for
\* what the calls do with the values of the components: the components given
\* to add_components carry either payload.
FirstEntity ==
    create_entity(RegisteredTypes, EmptyDict, EmptyDict, 0, <<[type |-> 0, val |-> 1]>>)

InitVal ==
    /\ component_types = RegisteredTypes
    /\ entities = FirstEntity.entities
    /\ entity_cache = FirstEntity.entity_cache
    /\ processors = <<>>
    /\ new_entity_id = FirstEntity.new_entity_id
    /\ last = Ready
    /\ before = Now
    /\ minted = <<FirstEntity.ret>>
    /\ proc_registered = FALSE

NextVal ==
    \/ AddComponents(Values)
    \/ RemoveComponents
    \/ GetComponents
    \/ Resume

SpecVal == InitVal /\ [][NextVal]_vars

\* ----------------------------------------------------------------- claims
SingleBits == {Shl(1, t) : t \in CompTypes}
CachedIds == UNION {entity_cache[b] : b \in DOMAIN entity_cache}
OrOfKeys(record) == ReduceOrFrom(0, SortedSeq(DOMAIN record.comps))
Holds(record, mask) == BitAnd(record.bitmask, mask) = mask
Unchanged == Now = before

\* bit b, a single bit, is set in x
HasBit(x, b) == (x \div b) % 2 = 1

\* the bitwise OR of a set of distinct single bits: their sum
RECURSIVE SumOf(_)
SumOf(S) == IF S = {} THEN 0 ELSE LET x == CHOOSE y \in S : TRUE IN x + SumOf(S \ {x})

\* C1 (cache consistency): in every state the calls can leave behind, an
\* identity e is in the cache set stored under a single bit b exactly when e is
\* a live entity whose aggregate bitmask has b set; in particular no removed
\* identity stays in a set and no live holder is missing from one.
C1_CacheConsistency ==
    /\ DOMAIN entity_cache \subseteq SingleBits
    /\ \A b \in DOMAIN entity_cache :
          entity_cache[b] = {e \in DOMAIN entities : HasBit(entities[e].bitmask, b)}
    /\ \A e \in DOMAIN entities, b \in SingleBits :
          HasBit(entities[e].bitmask, b) => b \in DOMAIN entity_cache

\* A removal has just happened while another entity holds both bits: the cache
\* sets of both bits hold that entity alone.
C1_Witness ==
    /\ last.op = "remove_entity"
    /\ last.result = OK
    /\ Len(minted) = 2
    /\ \E e \in DOMAIN entities :
          /\ entities[e].bitmask = 3
          /\ 1 \in DOMAIN entity_cache /\ entity_cache[1] = {e}
          /\ 2 \in DOMAIN entity_cache /\ entity_cache[2] = {e}

\* C2 (aggregate invariant): a record can be constructed from any collection
\* of components of registered classes, the empty one included, and every
\* record's aggregate bitmask is the bitwise OR of its keys (0 when empty).
C2_AggregateInvariant ==
    /\ \A e \in DOMAIN entities : entities[e].bitmask = OrOfKeys(entities[e])
    /\ (/\ last.op = "create_entity"
        /\ \A i \in 1..Len(last.comps) : last.comps[i].type \in DOMAIN before.component_types)
           => /\ last.result = OK
              /\ last.ret \in DOMAIN entities
              /\ entities[last.ret].bitmask = OrOfKeys(entities[last.ret])

\* The part of C2 the code keeps: every record that exists has an aggregate
\* equal to the OR of its keys.
AggregateOfKeys ==
    \A e \in DOMAIN entities : entities[e].bitmask = OrOfKeys(entities[e])

\* C3 (query correctness): a get_entities_by_bitmask call with a bitmask that
\* has at least one set bit, all of whose set bits have a cache entry, returns
\* without error exactly the records of the live entities whose aggregate
\* contains every set bit of the mask, one record per entity; these are the
\* entities that are members of the cache set of every set bit (for two
\* single bits A and B, the intersection of lookup(A) and lookup(B)).
C3_QueryCorrect ==
    (/\ last.op = "get_entities_by_bitmask"
     /\ last.mask # 0
     /\ Range(bits(last.mask)) \subseteq DOMAIN before.entity_cache)
        => /\ last.result = OK
           /\ last.records = {entities[e] : e \in {x \in DOMAIN entities :
                                                  Holds(entities[x], last.mask)}}
           /\ \A r \in last.records : r.id \in DOMAIN entities /\ entities[r.id] = r
           /\ {r.id : r \in last.records}
                 = {e \in EntityIds \cup CachedIds :
                       \A b \in Range(bits(last.mask)) : e \in entity_cache[b]}

\* A query on both bits has just returned one of two live entities: the other
\* holds only one of the bits.
C3_Witness ==
    /\ last.op = "get_entities_by_bitmask"
    /\ last.mask = 3
    /\ last.result = OK
    /\ \E e1 \in DOMAIN entities, e2 \in DOMAIN entities :
          /\ entities[e1].bitmask = 3
          /\ entities[e2].bitmask = 1
          /\ last.records = {entities[e1]}

\* C4 (identities): the k-th create_entity call that succeeds since the World
\* was constructed or cleared returns identity k, which no earlier call
\* returned and no live entity has; a create_entity call that fails stores no
\* entity and leaves the counter alone.
C4_IdentitiesNeverReused ==
    /\ \A k \in 1..Len(minted) : minted[k] = k - 1
    /\ last.op = "create_entity" =>
          IF last.result = OK
          THEN /\ minted # <<>> /\ last.ret = minted[Len(minted)]
               /\ last.ret \notin DOMAIN before.entities
               /\ DOMAIN entities = DOMAIN before.entities \cup {last.ret}
          ELSE /\ entities = before.entities
               /\ entity_cache = before.entity_cache
               /\ new_entity_id = before.new_entity_id

\* The second entity has just been created after the first was destroyed: it
\* got identity 1, not the freed identity 0.
C4_Witness ==
    /\ last.op = "create_entity"
    /\ last.result = OK
    /\ last.ret = 1
    /\ minted = <<0, 1>>
    /\ DOMAIN entities = {1}

\* C5 (bit assignment): registering a component class with a World that has
\* no processors succeeds, and afterwards the registry resolves the class to
\* a single bit, the k-th class registered to 1 << k.
C5_BitAssignment ==
    (last.op = "component" /\ before.processors = <<>>)
        => /\ last.result = OK
           /\ last.types[1] \in DOMAIN component_types
           /\ \A t \in DOMAIN component_types :
                 \E k \in 0..(Cardinality(DOMAIN component_types) - 1) :
                     component_types[t] = Shl(1, k)
           /\ \A t \in DOMAIN component_types, u \in DOMAIN component_types :
                 t # u => component_types[t] # component_types[u]

\* list after a stable insertion by descending priority: in front of the first
\* record of strictly lower priority, else at the end
StableInsert(list, record) ==
    LET lower == {i \in 1..Len(list) : list[i].priority < record.priority}
    IN IF lower = {} THEN Append(list, record)
       ELSE ListInsert(list, (CHOOSE x \in lower : \A y \in lower : x <= y) - 1, record)

\* C6 (priority ordering): every registration of a processor for one or more
\* registered classes adds exactly one record, in front of the first record of
\* strictly lower priority or else at the end, so the registry is the stable
\* sort of the registrations by descending priority.
C6_PriorityOrdering ==
    (/\ last.op = "processor"
     /\ last.types # <<>>
     /\ Range(last.types) \subseteq DOMAIN before.component_types)
        => /\ last.result = OK
           /\ Len(processors) = Len(before.processors) + 1
           /\ \E record \in Range(processors) :
                 /\ record.processor = last.ptype
                 /\ record.priority = last.priority
                 /\ processors = StableInsert(before.processors, record)

\* C7 (ordering violation): once a processor registration has returned, and
\* until clear(), every registration of a component class is rejected with
\* the ordering error and changes nothing.
C7_OrderingViolation ==
    (last.op = "component" /\ proc_registered)
        => (last.result = ValueErrorOrder /\ Unchanged)

\* The part of C7 the code keeps: with a record in _processors, a component
\* registration raises the ordering error and changes nothing.
OrderingGuard ==
    (last.op = "component" /\ before.processors # <<>>)
        => (last.result = ValueErrorOrder /\ Unchanged)

\* C8 (unregistering): remove_processor removes every record whose processor
\* class is the given one (and whose priority is the given one, when one is
\* given) and keeps every other record in its order.
C8_Unregister ==
    last.op = "remove_processor"
        => LET Stays(record) ==
                   ~ (/\ record.processor = last.ptype
                      /\ (last.priority = NoPriority \/ record.priority = last.priority))
           IN processors = SelectSeq(before.processors, Stays)

\* the classes a call names: those of its components and those it was given
ArgTypes(call) == {call.comps[i].type : i \in 1..Len(call.comps)} \cup Range(call.types)

\* C9 (unknown type): a create_entity, add_components, remove_components or
\* get_components call given a class the registry does not hold, in any
\* argument position, raises a lookup error and leaves the World as it was.
C9_UnknownTypeUnchanged ==
    (/\ last.op \in {"create_entity", "add_components", "remove_components",
                     "get_components"}
     /\ \E class \in ArgTypes(last) : class \notin DOMAIN before.component_types)
        => (last.result \in LookupErrors /\ Unchanged)

\* C10 (unknown identity): remove_entity, add_components, remove_components
\* and get_components called with an identity that is not live raise a lookup
\* error and change nothing.
C10_UnknownIdentity ==
    (/\ last.op \in {"remove_entity", "add_components", "remove_components",
                     "get_components"}
     /\ last.id \notin DOMAIN before.entities)
        => (last.result \in LookupErrors /\ Unchanged)

\* C11 (processor for an unregistered class): a processor registration that
\* names a class the registry does not hold raises a lookup error, whatever
\* records the World already holds, and adds no record.
C11_UnknownTypeProcessor ==
    (/\ last.op = "processor"
     /\ \E class \in Range(last.types) : class \notin DOMAIN before.component_types)
        => (last.result \in LookupErrors /\ processors = before.processors)

\* The part of C11 the code keeps: when the registration finds a record of
\* strictly lower priority, an unregistered class raises the lookup error and
\* the list is unchanged.
UnknownTypeBeforeLower ==
    (/\ last.op = "processor"
     /\ \E class \in Range(last.types) : class \notin DOMAIN before.component_types
     /\ \E i \in 1..Len(before.processors) : before.processors[i].priority < last.priority)
        => (last.result = KeyErrorType /\ processors = before.processors)

\* C13 (entity without components): create_entity() with no components
\* succeeds, returns the next identity (0 on a new or cleared World), stores a
\* record with no keys and aggregate 0, touches no cache set and advances the
\* counter by one.
C13_CreateEmptyEntity ==
    (last.op = "create_entity" /\ last.comps = <<>>)
        => /\ last.result = OK
           /\ last.ret = before.new_entity_id
           /\ new_entity_id = before.new_entity_id + 1
           /\ last.ret \in DOMAIN entities
           /\ entities[last.ret].comps = EmptyDict
           /\ entities[last.ret].bitmask = 0
           /\ entity_cache = before.entity_cache

\* C14 (append-only registries): direct key assignment on the component
\* registry fails and changes nothing; on an Entity Record every add grows the
\* record by one key, and no call removes a key from a record.
C14_AppendOnly ==
    /\ last.op = "component"
          => (last.result # OK /\ component_types = before.component_types)
    /\ (last.op = "add_components" /\ last.result = OK)
          => Cardinality(DOMAIN entities[last.id].comps)
                = Cardinality(DOMAIN before.entities[last.id].comps) + Len(last.comps)
    /\ last.op \in {"add_components", "remove_components"}
          => \A e \in DOMAIN before.entities :
                /\ e \in DOMAIN entities
                /\ DOMAIN before.entities[e].comps \subseteq DOMAIN entities[e].comps

\* C12 (clear): clear() leaves the World as World.__init__ does, whatever it
\* held: no registered class, no entity, no cache entry, no processor record,
\* counter 0; so the next identity minted is 0 again.
C12_ClearResets ==
    last.op = "clear"
        => /\ component_types = EmptyDict
           /\ entities = EmptyDict
           /\ entity_cache = EmptyDict
           /\ processors = <<>>
           /\ new_entity_id = 0
           /\ minted = <<>>

\* clear() has just run on a World that held two entities (identities 0 and
\* 1), cache entries, registered classes and two processor records.
C12_Witness ==
    /\ last.op = "clear"
    /\ DOMAIN before.entities = {0, 1}
    /\ before.new_entity_id = 2
    /\ before.entity_cache # EmptyDict
    /\ before.component_types # EmptyDict
    /\ Len(before.processors) = 2

\* the bits the registry gives to the classes a call names
ArgBits(call) ==
    {before.component_types[t] : t \in Range(call.types) \cap DOMAIN before.component_types}
RegisteredBits == {component_types[t] : t \in DOMAIN component_types}
Holders(b) == {e \in DOMAIN entities : b \in DOMAIN entities[e].comps}

\* C15 (frame of remove_components): a remove_components call that succeeds
\* for classes the entity holds takes exactly their keys out of the record and
\* their bits out of its aggregate, takes exactly that entity out of the cache
\* sets of those bits, and leaves alone the entity's other components, every
\* other cache set, every other entity, the registry, the processors and the
\* counter.
C15_RemoveFrame ==
    (last.op = "remove_components" /\ last.result = OK /\ last.types # <<>>)
        => LET was == before.entities[last.id]
               is == entities[last.id]
           IN /\ DOMAIN is.comps = DOMAIN was.comps \ ArgBits(last)
              /\ \A b \in DOMAIN is.comps : is.comps[b] = was.comps[b]
              /\ \A b \in SingleBits :
                    BitAnd(is.bitmask, b) # 0
                        <=> (BitAnd(was.bitmask, b) # 0 /\ b \notin ArgBits(last))
              /\ DOMAIN entity_cache = DOMAIN before.entity_cache
              /\ \A b \in DOMAIN entity_cache :
                    entity_cache[b] = IF b \in ArgBits(last)
                                      THEN before.entity_cache[b] \ {last.id}
                                      ELSE before.entity_cache[b]
              /\ DOMAIN entities = DOMAIN before.entities
              /\ \A e \in DOMAIN entities \ {last.id} : entities[e] = before.entities[e]
              /\ component_types = before.component_types
              /\ processors = before.processors
              /\ new_entity_id = before.new_entity_id

\* An entity holding bits 1 and 2 has just lost the class of bit 2: its
\* aggregate is 1, the set of bit 2 holds only the other entity, the set of
\* bit 1 still holds it.
C15_Witness ==
    /\ last.op = "remove_components"
    /\ last.result = OK
    /\ last.types = <<1>>
    /\ before.entities[last.id].bitmask = 3
    /\ entities[last.id].bitmask = 1
    /\ last.id \in entity_cache[1]
    /\ \E e \in DOMAIN entities : e # last.id /\ entity_cache[2] = {e}

\* C18 (life of the per-bit sets): a cache entry appears when an entity first
\* holds the bit and only clear() takes entries away; a query on a registered
\* single bit raises a lookup error exactly when the bit has no entry, and
\* once the bit has an entry the query succeeds, with an empty result when
\* no entity holds the bit any more.
C18_CacheEntriesPersist ==
    /\ last.op # "clear" => DOMAIN before.entity_cache \subseteq DOMAIN entity_cache
    /\ \A b \in DOMAIN entity_cache \ DOMAIN before.entity_cache : Holders(b) # {}
    /\ \A e \in DOMAIN entities : DOMAIN entities[e].comps \subseteq DOMAIN entity_cache
    /\ (last.op = "get_entities_by_bitmask" /\ last.mask \in RegisteredBits)
          => /\ last.result \in LookupErrors <=> last.mask \notin DOMAIN entity_cache
             /\ last.mask \in DOMAIN entity_cache => last.result = OK
             /\ (last.mask \in DOMAIN entity_cache /\ Holders(last.mask) = {})
                   => last.records = {}

\* A query on bit 1 has just returned nothing, without an error: an entity
\* held bit 1 once and none does now.
C18_Witness ==
    /\ last.op = "get_entities_by_bitmask"
    /\ last.mask = 1
    /\ last.result = OK
    /\ last.records = {}
    /\ 1 \in DOMAIN entity_cache
    /\ Holders(1) = {}
    /\ minted # <<>>

\* C19 (removing a component that is not held): remove_components never turns
\* a bit on or adds a key, and a call for one registered class the live entity
\* does not hold raises an error and changes nothing.
C19_RemoveAbsent ==
    (last.op = "remove_components" /\ last.id \in DOMAIN before.entities)
        => LET was == before.entities[last.id]
               is == entities[last.id]
           IN /\ BitAnd(is.bitmask, was.bitmask) = is.bitmask
              /\ DOMAIN is.comps \subseteq DOMAIN was.comps
              /\ \A b \in ArgBits(last) \ DOMAIN was.comps : BitAnd(is.bitmask, b) = 0
              /\ (/\ Len(last.types) = 1
                  /\ last.types[1] \in DOMAIN before.component_types
                  /\ before.component_types[last.types[1]] \notin DOMAIN was.comps)
                    => (last.result = KeyErrorBit /\ Unchanged)

\* The class of bit 2 was asked out of an entity that holds only bit 1.
C19_Witness ==
    /\ last.op = "remove_components"
    /\ last.types = <<1>>
    /\ last.id \in DOMAIN entities
    /\ entities[last.id].bitmask = 1
    /\ last.result = KeyErrorBit

\* C20 (lock-step): in the state an add_components or remove_components call
\* leaves behind when it raises, also partway through its arguments, every
\* aggregate is the OR of the record's keys and an entity is in the cache set
\* of a bit exactly when its aggregate has the bit.
C20_LockStep ==
    (last.op \in {"add_components", "remove_components"} /\ last.result # OK)
        => /\ \A e \in DOMAIN entities :
                 /\ DOMAIN entities[e].comps \subseteq SingleBits
                 /\ entities[e].bitmask = SumOf(DOMAIN entities[e].comps)
           /\ DOMAIN entity_cache \subseteq SingleBits
           /\ \A b \in DOMAIN entity_cache :
                 entity_cache[b] = {e \in DOMAIN entities : HasBit(entities[e].bitmask, b)}
           /\ \A e \in DOMAIN entities, b \in SingleBits :
                 HasBit(entities[e].bitmask, b) => b \in DOMAIN entity_cache

\* An add_components call has raised on its second component, an unregistered
\* class, after its first one gave the entity a new bit.
C20_Witness ==
    /\ last.op = "add_components"
    /\ last.result = KeyErrorType
    /\ Len(last.comps) = 2
    /\ last.id \in DOMAIN entities
    /\ entities[last.id].bitmask # before.entities[last.id].bitmask

\* C16 (get_components): on a live entity that holds every requested class
\* the call returns, in the order requested, the value stored for each class
\* and changes nothing; on a live entity that lacks a requested class it
\* raises a lookup error.
C16_GetComponents ==
    (last.op = "get_components" /\ last.id \in DOMAIN before.entities)
        => LET record == before.entities[last.id]
               Held(t) == /\ t \in DOMAIN before.component_types
                          /\ before.component_types[t] \in DOMAIN record.comps
           IN /\ Unchanged
              /\ IF \A i \in 1..Len(last.types) : Held(last.types[i])
                 THEN /\ last.result = OK
                      /\ Len(last.values) = Len(last.types)
                      /\ \A i \in 1..Len(last.types) :
                            last.values[i]
                                = record.comps[before.component_types[last.types[i]]]
                 ELSE last.result \in LookupErrors

\* Two classes were asked for in the order opposite to their bits, and their
\* values differ: the tuple follows the request.
C16_Witness ==
    /\ last.op = "get_components"
    /\ last.result = OK
    /\ last.types = <<1, 0>>
    /\ last.values = <<2, 1>>

\* C17 (adding a held class): an add_components call whose components are all
\* of classes the entity already holds replaces their values (the last one
\* given for a class stays) and changes nothing else: keys, aggregate, cache
\* sets, other entities; an entity never occurs twice in a cache set.
C17_AddReplaces ==
    (/\ last.op = "add_components"
     /\ last.id \in DOMAIN before.entities
     /\ last.comps # <<>>
     /\ \A i \in 1..Len(last.comps) :
           /\ last.comps[i].type \in DOMAIN before.component_types
           /\ before.component_types[last.comps[i].type]
                 \in DOMAIN before.entities[last.id].comps)
        => LET was == before.entities[last.id]
               is == entities[last.id]
               LastOf(b) == CHOOSE i \in 1..Len(last.comps) :
                               /\ before.component_types[last.comps[i].type] = b
                               /\ \A j \in (i + 1)..Len(last.comps) :
                                     before.component_types[last.comps[j].type] # b
           IN /\ last.result = OK
              /\ DOMAIN is.comps = DOMAIN was.comps
              /\ is.bitmask = was.bitmask
              /\ \A b \in DOMAIN is.comps :
                    is.comps[b] = IF b \in {before.component_types[last.comps[i].type] :
                                               i \in 1..Len(last.comps)}
                                  THEN last.comps[LastOf(b)].val
                                  ELSE was.comps[b]
              /\ entity_cache = before.entity_cache
              /\ \A e \in DOMAIN entities \ {last.id} : entities[e] = before.entities[e]
              /\ DOMAIN entities = DOMAIN before.entities
              /\ new_entity_id = before.new_entity_id

\* The value 1 stored for class 0 has just been replaced by 2, on an entity
\* that also holds class 1.
C17_Witness ==
    /\ last.op = "add_components"
    /\ last.result = OK
    /\ last.comps = <<[type |-> 0, val |-> 2]>>
    /\ before.entities[last.id].comps[1] = 1
    /\ entities[last.id].comps[1] = 2
    /\ entities[last.id].bitmask = 3

====
